---- MODULE Spec2Model ----
(***************************************************************************)
(* Attribute storage with its class-membership cache (src/attributes.rs)   *)
(* and the recursive tree serializer (src/serializer.rs) of kuchikiki.     *)
(*                                                                         *)
(* Strings are sequences of one-character strings; Option<T> is a sequence *)
(* of length at most one (None == << >>, Some(x) == <<x>>).                *)
(***************************************************************************)
EXTENDS Integers, Sequences, FiniteSets, TLC

VARIABLES stores, lastOp, nodes, out

vars == <<stores, lastOp, nodes, out>>

storeVars == <<stores, lastOp>>

treeVars == <<nodes, out>>

(***************************************************************************)
(* Bounds of the exploration.                                              *)
(***************************************************************************)
\* Longest attribute value and longest queried class name, in characters.
MaxLen == 3

\* The characters values and names are made of: two letters that differ only
\* in ASCII case, and one whitespace character.
Alphabet == {"a", "A", " "}

Strings == UNION {[1..k -> Alphabet] : k \in 0..MaxLen}

None == << >>

Some(x) == <<x>>

(***************************************************************************)
(* String helpers of the standard library, as attributes.rs uses them.     *)
(***************************************************************************)
\* selectors::attr::SELECTOR_WHITESPACE: space, tab, line feed, carriage
\* return, form feed.
SELECTOR_WHITESPACE == {" ", "\t", "\n", "\r", "\f"}

\* char::is_whitespace, the set str::trim strips: a superset of
\* SELECTOR_WHITESPACE (it also holds U+000B, U+0085, U+00A0, ...).
WhiteSpace == SELECTOR_WHITESPACE \cup {"U+000B", "U+0085", "U+00A0"}

RECURSIVE TrimStart(_)
TrimStart(s) ==
    IF s = << >> \/ Head(s) \notin WhiteSpace THEN s ELSE TrimStart(Tail(s))

RECURSIVE TrimEnd(_)
TrimEnd(s) ==
    IF s = << >> \/ s[Len(s)] \notin WhiteSpace
    THEN s
    ELSE TrimEnd(SubSeq(s, 1, Len(s) - 1))

\* str::trim
Trim(s) == TrimEnd(TrimStart(s))

\* str::contains with a set-of-characters pattern
StrContains(s, pat) == \E i \in 1..Len(s) : s[i] \in pat

\* str::split with a set-of-characters pattern: the pieces between the
\* separators, empty pieces included; a string without separator is one piece.
RECURSIVE StrSplit(_, _)
StrSplit(s, pat) ==
    IF ~StrContains(s, pat)
    THEN <<s>>
    ELSE LET i == CHOOSE j \in 1..Len(s) :
                      /\ s[j] \in pat
                      /\ \A k \in 1..(j - 1) : s[k] \notin pat
         IN  <<SubSeq(s, 1, i - 1)>> \o StrSplit(SubSeq(s, i + 1, Len(s)), pat)

\* u8::to_ascii_lowercase
ToAsciiLower(c) == IF c = "A" THEN "a" ELSE c

\* selectors::attr::CaseSensitivity
CaseSensitivity == {"CaseSensitive", "AsciiCaseInsensitive"}

\* CaseSensitivity::eq: byte equality, or <[u8]>::eq_ignore_ascii_case
CaseSensitivityEq(cs, a, b) ==
    IF cs = "CaseSensitive"
    THEN a = b
    ELSE /\ Len(a) = Len(b)
         /\ \A i \in 1..Len(a) : ToAsciiLower(a[i]) = ToAsciiLower(b[i])

(***************************************************************************)
(* fastbloom::BloomFilter, as ClassCache uses it: a fixed number of bits,  *)
(* a hash seeded at construction, insertion of every item, and a           *)
(* membership test that is true for every inserted item and may be true    *)
(* for others.  The seed is drawn at random by the library: the model      *)
(* draws it from Seeds.  Seed 0 hashes the strings of the model to         *)
(* distinct bits (for lengths up to 3), seed 1 makes some of them collide. *)
(***************************************************************************)
NumBits == 64

Seeds == {0, 1}

CharCode(c) == CASE c = "a" -> 1 [] c = "A" -> 2 [] OTHER -> 3

RECURSIVE BloomHash(_, _, _)
BloomHash(mult, h, item) ==
    IF item = << >>
    THEN h
    ELSE BloomHash(mult, (h * mult + CharCode(Head(item))) % NumBits, Tail(item))

\* The bit an item selects under a seed.
BloomIndex(seed, item) == BloomHash(IF seed = 0 THEN 4 ELSE 1, 0, item)

\* BloomFilter::with_num_bits(64).items(classes)
BloomItems(seed, items) ==
    [seed |-> seed, bits |-> {BloomIndex(seed, it) : it \in items}]

\* BloomFilter::contains
BloomContains(filter, item) == BloomIndex(filter.seed, item) \in filter.bits

(***************************************************************************)
(* ClassCache                                                              *)
(***************************************************************************)
Single == [tag |-> "Single"]

Bloom(filter) == [tag |-> "Bloom", filter |-> filter]

\* The items handed to the filter: the non-empty pieces of the value.
Classes(value) ==
    LET pieces == StrSplit(value, SELECTOR_WHITESPACE)
    IN  {pieces[i] : i \in {j \in 1..Len(pieces) : pieces[j] /= << >>}}

\* ClassCache::new
ClassCacheNew(value, seed) ==
    IF ~StrContains(Trim(value), SELECTOR_WHITESPACE)
    THEN Single
    ELSE Bloom(BloomItems(seed, Classes(value)))

(***************************************************************************)
(* indexmap::IndexMap<ExpandedName, Attribute>: a sequence of entries with *)
(* distinct keys, in iteration order.                                      *)
(***************************************************************************)
\* ExpandedName::new
ExpandedName(ns, local) == [ns |-> ns, local |-> local]

\* ns!(): the null namespace
NullNs == ""

Attribute(prefix, value) == [prefix |-> prefix, value |-> value]

\* #[derive(PartialEq)] on Attribute: field by field.
AttributeEq(a, b) == a.prefix = b.prefix /\ a.value = b.value

\* IndexMap::get_index_of, 0 for an absent key
IndexOf(map, key) ==
    IF \E i \in 1..Len(map) : map[i].key = key
    THEN CHOOSE i \in 1..Len(map) : map[i].key = key
    ELSE 0

IndexMapContainsKey(map, key) == IndexOf(map, key) /= 0

IndexMapGet(map, key) ==
    IF IndexOf(map, key) = 0 THEN None ELSE Some(map[IndexOf(map, key)].value)

\* IndexMap::insert: replaces the value in place and returns the old one, or
\* appends the new entry and returns None.
IndexMapInsert(map, key, value) ==
    LET i == IndexOf(map, key)
    IN  IF i = 0
        THEN [map |-> Append(map, [key |-> key, value |-> value]), old |-> None]
        ELSE [map |-> [map EXCEPT ![i].value = value], old |-> Some(map[i].value)]

\* IndexMap::swap_remove: the last entry takes the removed entry's place.
IndexMapSwapRemove(map, key) ==
    LET i == IndexOf(map, key)
        n == Len(map)
    IN  IF i = 0
        THEN [map |-> map, old |-> None]
        ELSE [map |-> SubSeq([map EXCEPT ![i] = map[n]], 1, n - 1),
              old |-> Some(map[i].value)]

\* FromIterator for IndexMap: insert the items one by one.
RECURSIVE IndexMapExtend(_, _)
IndexMapExtend(map, items) ==
    IF items = << >>
    THEN map
    ELSE IndexMapExtend(IndexMapInsert(map, items[1].key, items[1].value).map,
                        Tail(items))

IndexMapFromIter(items) == IndexMapExtend(<< >>, items)

\* PartialEq for IndexMap: same length, and every entry of the one is found
\* with an equal value in the other; the order does not take part.
IndexMapEq(m1, m2) ==
    /\ Len(m1) = Len(m2)
    /\ \A i \in 1..Len(m1) :
           /\ IndexMapContainsKey(m2, m1[i].key)
           /\ AttributeEq(m1[i].value, m2[IndexOf(m2, m1[i].key)].value)

(***************************************************************************)
(* Attributes                                                              *)
(***************************************************************************)
ClassName == ExpandedName(NullNs, "class")

\* Attributes::new
AttributesNew(items, seed) ==
    LET map == IndexMapFromIter(items)
    IN  [map |-> map,
         class_cache |->
             IF IndexMapContainsKey(map, ClassName)
             THEN Some(ClassCacheNew(IndexMapGet(map, ClassName)[1].value, seed))
             ELSE None]

\* Attributes::contains
AttributesContains(attrs, local) ==
    IndexMapContainsKey(attrs.map, ExpandedName(NullNs, local))

\* get looking the attribute up by its local name alone, in whatever
\* namespace it is.
AttributesGetAnyNs(attrs, local) ==
    IF \E i \in 1..Len(attrs.map) : attrs.map[i].key.local = local
    THEN Some(attrs.map[CHOOSE i \in 1..Len(attrs.map) :
                            attrs.map[i].key.local = local].value.value)
    ELSE None

\* Attributes::get
AttributesGet(attrs, local) ==
    LET found == IndexMapGet(attrs.map, ExpandedName(NullNs, local))
    IN  IF found = None THEN None ELSE Some(found[1].value)

\* Attributes::has_class_impl
HasClassImpl(attrs, name, cs) ==
    LET class_list == AttributesGet(attrs, "class")
    IN  IF class_list = None
        THEN FALSE
        ELSE LET pieces == StrSplit(class_list[1], SELECTOR_WHITESPACE)
             IN  \E i \in 1..Len(pieces) : CaseSensitivityEq(cs, pieces[i], name)

\* has_class answering from the filter alone: a positive filter test is
\* taken as the answer, without the exact scan.
HasClassNoFallback(attrs, name, cs) ==
    IF attrs.class_cache = None
    THEN HasClassImpl(attrs, name, cs)
    ELSE IF attrs.class_cache[1].tag = "Single"
    THEN /\ AttributesGet(attrs, "class") /= None
         /\ CaseSensitivityEq(cs, AttributesGet(attrs, "class")[1], name)
    ELSE IF cs = "CaseSensitive"
    THEN BloomContains(attrs.class_cache[1].filter, name)
    ELSE HasClassImpl(attrs, name, cs)

\* has_class consulting the filter under both policies: a negative filter
\* test answers false for the case-insensitive policy too.
HasClassFilterAlways(attrs, name, cs) ==
    IF attrs.class_cache = None
    THEN HasClassImpl(attrs, name, cs)
    ELSE IF attrs.class_cache[1].tag = "Single"
    THEN /\ AttributesGet(attrs, "class") /= None
         /\ CaseSensitivityEq(cs, AttributesGet(attrs, "class")[1], name)
    ELSE IF BloomContains(attrs.class_cache[1].filter, name)
    THEN HasClassImpl(attrs, name, cs)
    ELSE FALSE

\* has_class taking a missing index for a missing class attribute.
HasClassAbsentIndexFalse(attrs, name, cs) ==
    IF attrs.class_cache = None
    THEN FALSE
    ELSE IF attrs.class_cache[1].tag = "Single"
    THEN /\ AttributesGet(attrs, "class") /= None
         /\ CaseSensitivityEq(cs, AttributesGet(attrs, "class")[1], name)
    ELSE IF cs = "CaseSensitive"
    THEN IF BloomContains(attrs.class_cache[1].filter, name)
         THEN HasClassImpl(attrs, name, cs)
         ELSE FALSE
    ELSE HasClassImpl(attrs, name, cs)

\* Attributes::has_class
HasClass(attrs, name, cs) ==
    IF attrs.class_cache = None
    THEN HasClassImpl(attrs, name, cs)
    ELSE IF attrs.class_cache[1].tag = "Single"
    THEN /\ AttributesGet(attrs, "class") /= None
         /\ CaseSensitivityEq(cs, AttributesGet(attrs, "class")[1], name)
    ELSE IF cs = "CaseSensitive"
    THEN IF BloomContains(attrs.class_cache[1].filter, name)
         THEN HasClassImpl(attrs, name, cs)
         ELSE FALSE
    ELSE HasClassImpl(attrs, name, cs)

\* Equality as #[derive(PartialEq)] on Attributes would define it: the cache
\* compared with the map.
AttributesEqDerived(a, b) ==
    IndexMapEq(a.map, b.map) /\ a.class_cache = b.class_cache

\* PartialEq for Attributes
AttributesEq(a, b) == IndexMapEq(a.map, b.map)

\* Attributes::get_mut followed by a write of v through the returned
\* reference; nothing happens when the attribute is absent.
AttributesGetMutWrite(attrs, local, v) ==
    LET i == IndexOf(attrs.map, ExpandedName(NullNs, local))
    IN  IF i = 0
        THEN attrs
        ELSE [attrs EXCEPT !.map[i].value.value = v]

\* Attributes::entry followed by a write of attr through the entry: an
\* occupied entry has its value replaced, a vacant one is inserted.
AttributesEntryWrite(attrs, local, attr) ==
    [attrs EXCEPT
        !.map = IndexMapInsert(attrs.map, ExpandedName(NullNs, local), attr).map]

\* insert rebuilding the index when the class attribute is written.
AttributesInsertRefreshing(attrs, local, value) ==
    LET r == IndexMapInsert(attrs.map, ExpandedName(NullNs, local),
                            Attribute(None, value))
    IN  [attrs |-> [map |-> r.map,
                    class_cache |-> IF local = "class"
                                    THEN Some(ClassCacheNew(value, 0))
                                    ELSE attrs.class_cache],
         ret |-> r.old]

\* Attributes::insert: the store afterwards and the returned Option<Attribute>
AttributesInsert(attrs, local, value) ==
    LET r == IndexMapInsert(attrs.map, ExpandedName(NullNs, local),
                            Attribute(None, value))
    IN  [attrs |-> [attrs EXCEPT !.map = r.map], ret |-> r.old]

\* Attributes::remove: the store afterwards and the returned Option<Attribute>
AttributesRemove(attrs, local) ==
    LET r == IndexMapSwapRemove(attrs.map, ExpandedName(NullNs, local))
    IN  [attrs |-> [attrs EXCEPT !.map = r.map], ret |-> r.old]

\* html5ever::QualName::new
QualName(prefix, ns, local) == [prefix |-> prefix, ns |-> ns, local |-> local]

\* The attribute list the serializer hands to start_elem: the map's entries
\* in iteration order, each re-qualified with its prefix, namespace and local
\* name (serializer.rs, `attrs.map.iter().map(..).collect()`).
StartElemAttrs(attrs) ==
    [i \in 1..Len(attrs.map) |->
        [name |-> QualName(attrs.map[i].value.prefix,
                           attrs.map[i].key.ns,
                           attrs.map[i].key.local),
         value |-> attrs.map[i].value.value]]

(***************************************************************************)
(* The node tree (crate::tree, consumed by the serializer): `nodes` holds  *)
(* the node records, a node's handle is its index.  Each node is given a   *)
(* label of its own (its index as a string) as element name, text, comment,*)
(* doctype name or processing-instruction data, so that an event names the *)
(* node it came from.                                                      *)
(***************************************************************************)
HtmlNs == "http://www.w3.org/1999/xhtml"

Label(id) == ToString(id)

\* NodeData::Element(ElementData {name, attributes, template_contents})
ElementData(name, attributes, template_contents) ==
    [kind |-> "Element", name |-> name, attributes |-> attributes,
     template_contents |-> template_contents]

\* NodeData::Text, Comment, ProcessingInstruction, Doctype, Document,
\* DocumentFragment
TextData(text) == [kind |-> "Text", text |-> text]

CommentData(text) == [kind |-> "Comment", text |-> text]

ProcessingInstructionData(target, data) ==
    [kind |-> "ProcessingInstruction", contents |-> <<target, data>>]

DoctypeData(name, public_id, system_id) ==
    [kind |-> "Doctype", name |-> name, public_id |-> public_id,
     system_id |-> system_id]

DocumentData == [kind |-> "Document"]

DocumentFragmentData == [kind |-> "DocumentFragment"]

\* NodeRef::data
Data(n) == nodes[n].data

\* NodeRef::children: the child handles in order
Children(n) == nodes[n].children

(***************************************************************************)
(* The sink (html5ever's Serializer): it records every call made on it,    *)
(* and the call number fail_at returns an I/O error (0: no call fails).    *)
(***************************************************************************)
NewSink(fail_at) == [calls |-> << >>, fail_at |-> fail_at]

SinkCall(sink, event) ==
    [sink |-> [sink EXCEPT !.calls = Append(@, event)],
     ok |-> Len(sink.calls) + 1 /= sink.fail_at]

StartElem(name, attrs) == [ev |-> "start_elem", name |-> name, attrs |-> attrs]

EndElem(name) == [ev |-> "end_elem", name |-> name]

WriteDoctype(name) == [ev |-> "write_doctype", doctype |-> name]

WriteText(text) == [ev |-> "write_text", text |-> text]

WriteComment(text) == [ev |-> "write_comment", comment |-> text]

WriteProcessingInstruction(target, data) ==
    [ev |-> "write_processing_instruction", target |-> target, data |-> data]

\* html5ever::serialize::TraversalScope
IncludeNode == [scope |-> "IncludeNode"]

ChildrenOnly(name) == [scope |-> "ChildrenOnly", name |-> name]

Ok(sink) == [sink |-> sink, ok |-> TRUE]

(***************************************************************************)
(* impl Serialize for NodeRef.  A result is the sink afterwards and        *)
(* whether the call returned Ok; `?` returns the first failure at once.    *)
(***************************************************************************)
\* Both the direct children and the template contents' children.
RenderedChildrenBoth(n) ==
    IF Data(n).template_contents /= None
    THEN Children(n) \o Children(Data(n).template_contents[1])
    ELSE Children(n)

\* The children an element's serialization recurses into: those of the
\* template contents when the element has them, else its own.
RenderedChildren(n) ==
    IF Data(n).template_contents /= None
    THEN Children(Data(n).template_contents[1])
    ELSE Children(n)

RECURSIVE Serialize(_, _, _)

\* The loop over the children without the `?`: a child's failure is dropped
\* and the loop goes on with the next child.
RECURSIVE SerializeChildrenIgnoringErrors(_, _)
SerializeChildrenIgnoringErrors(children, sink) ==
    IF children = << >>
    THEN Ok(sink)
    ELSE SerializeChildrenIgnoringErrors(
             Tail(children), Serialize(Head(children), IncludeNode, sink).sink)

\* for child in children { Serialize::serialize(&child, serializer, IncludeNode)? }
RECURSIVE SerializeChildren(_, _)
SerializeChildren(children, sink) ==
    IF children = << >>
    THEN Ok(sink)
    ELSE LET r == Serialize(Head(children), IncludeNode, sink)
         IN  IF r.ok THEN SerializeChildren(Tail(children), r.sink) ELSE r

\* The Element arm closing the element before it recurses into the children.
SerializeElementEndBeforeChildren(n, scope, sink) ==
    LET element == Data(n)
        started == IF scope = IncludeNode
                   THEN SinkCall(sink, StartElem(element.name,
                                                 StartElemAttrs(element.attributes)))
                   ELSE Ok(sink)
        ended == IF scope = IncludeNode
                 THEN SinkCall(started.sink, EndElem(element.name))
                 ELSE Ok(started.sink)
    IN  IF ~started.ok THEN started
        ELSE IF ~ended.ok THEN ended
        ELSE SerializeChildren(RenderedChildren(n), ended.sink)

\* The loop over the children handing the caller's scope down.
RECURSIVE SerializeChildrenIn(_, _, _)
SerializeChildrenIn(children, scope, sink) ==
    IF children = << >>
    THEN Ok(sink)
    ELSE LET r == Serialize(Head(children), scope, sink)
         IN  IF r.ok THEN SerializeChildrenIn(Tail(children), scope, r.sink) ELSE r

\* The Element arm serializing the children in the scope it was called with.
SerializeElementScopeInherited(n, scope, sink) ==
    LET element == Data(n)
        started == IF scope = IncludeNode
                   THEN SinkCall(sink, StartElem(element.name,
                                                 StartElemAttrs(element.attributes)))
                   ELSE Ok(sink)
        inner == SerializeChildrenIn(RenderedChildren(n), scope, started.sink)
    IN  IF ~started.ok THEN started
        ELSE IF ~inner.ok THEN inner
        ELSE IF scope = IncludeNode
        THEN SinkCall(inner.sink, EndElem(element.name))
        ELSE Ok(inner.sink)

\* The Element arm
SerializeElement(n, scope, sink) ==
    LET element == Data(n)
        started == IF scope = IncludeNode
                   THEN SinkCall(sink, StartElem(element.name,
                                                 StartElemAttrs(element.attributes)))
                   ELSE Ok(sink)
        inner == SerializeChildren(RenderedChildren(n), started.sink)
    IN  IF ~started.ok THEN started
        ELSE IF ~inner.ok THEN inner
        ELSE IF scope = IncludeNode
        THEN SinkCall(inner.sink, EndElem(element.name))
        ELSE Ok(inner.sink)

\* The arms in another order: children-only scope matched before the
\* Document and DocumentFragment arm.
SerializeDocumentAfterChildrenOnly(n, scope, sink) ==
    IF scope.scope = "ChildrenOnly"
    THEN Ok(sink)
    ELSE SerializeChildren(Children(n), sink)

\* The DocumentFragment and Document arm
SerializeDocument(n, scope, sink) == SerializeChildren(Children(n), sink)

\* The leaf arms of include-node scope
SerializeLeaf(n, sink) ==
    LET data == Data(n)
    IN  CASE data.kind = "Doctype" -> SinkCall(sink, WriteDoctype(data.name))
          [] data.kind = "Text" -> SinkCall(sink, WriteText(data.text))
          [] data.kind = "Comment" -> SinkCall(sink, WriteComment(data.text))
          [] data.kind = "ProcessingInstruction" ->
                 SinkCall(sink, WriteProcessingInstruction(data.contents[1],
                                                           data.contents[2]))

\* The arms in another order: the leaf arms matched before the children-only
\* arm.
SerializeLeafArmsFirst(n, scope, sink) ==
    IF Data(n).kind = "Element"
    THEN SerializeElement(n, scope, sink)
    ELSE IF Data(n).kind \in {"DocumentFragment", "Document"}
    THEN SerializeDocument(n, scope, sink)
    ELSE SerializeLeaf(n, sink)

\* Serialize::serialize
Serialize(n, scope, sink) ==
    IF Data(n).kind = "Element"
    THEN SerializeElement(n, scope, sink)
    ELSE IF Data(n).kind \in {"DocumentFragment", "Document"}
    THEN SerializeDocument(n, scope, sink)
    ELSE IF scope.scope = "ChildrenOnly"
    THEN Ok(sink)
    ELSE SerializeLeaf(n, sink)

\* No serialize call has been made on the current tree.
NoCall == [node |-> 0]

(***************************************************************************)
(* The stores and the operations a caller applies to them.  lastOp names   *)
(* the operation that produced the current state.                          *)
(***************************************************************************)
StoreIds == {1, 2}

Op(op, s, local) == [op |-> op, store |-> s, local |-> local]

\* Attributes::insert(local, value) on store s
Insert(s, local, value) ==
    /\ stores' = [stores EXCEPT ![s] = AttributesInsert(stores[s], local, value).attrs]
    /\ lastOp' = Op("insert", s, local)
    /\ UNCHANGED treeVars

\* Attributes::remove(local) on store s
Remove(s, local) ==
    /\ stores' = [stores EXCEPT ![s] = AttributesRemove(stores[s], local).attrs]
    /\ lastOp' = Op("remove", s, local)
    /\ UNCHANGED treeVars

\* *attrs.get_mut(local).unwrap() = value, for a present attribute
GetMutWrite(s, local, value) ==
    /\ AttributesContains(stores[s], local)
    /\ stores' = [stores EXCEPT ![s] = AttributesGetMutWrite(stores[s], local, value)]
    /\ lastOp' = Op("get_mut", s, local)
    /\ UNCHANGED treeVars

\* A write of attr through attrs.entry(local)
EntryWrite(s, local, attr) ==
    /\ stores' = [stores EXCEPT ![s] = AttributesEntryWrite(stores[s], local, attr)]
    /\ lastOp' = Op("entry", s, local)
    /\ UNCHANGED treeVars

(***************************************************************************)
(* Spec: one store whose class attribute takes every value of Strings,     *)
(* beside a "class" attribute of another namespace.                        *)
(***************************************************************************)
SvgNs == "http://www.w3.org/2000/svg"

ClassItem(prefix, value) == [key |-> ClassName, value |-> Attribute(prefix, value)]

SvgClassItem ==
    [key |-> ExpandedName(SvgNs, "class"), value |-> Attribute(Some("svg"), <<"a">>)]

NewInputs ==
    {<< >>, <<SvgClassItem>>}
        \cup {<<ClassItem(None, v)>> : v \in Strings}
        \cup {<<ClassItem(None, v), SvgClassItem>> : v \in Strings}
        \cup {<<SvgClassItem, ClassItem(None, v)>> : v \in Strings}

EmptyStore == AttributesNew(<< >>, 0)

Init ==
    \E items \in NewInputs, seed \in Seeds :
        /\ stores = [s \in StoreIds |->
                        IF s = 1 THEN AttributesNew(items, seed) ELSE EmptyStore]
        /\ lastOp = Op("new", 1, "")
        /\ nodes = << >>
        /\ out = NoCall

Next ==
    \E v \in Strings :
        \/ Insert(1, "class", v)
        \/ Remove(1, "class")
        \/ GetMutWrite(1, "class", v)
        \/ EntryWrite(1, "class", Attribute(None, v))

Spec == Init /\ [][Next]_vars

\* The store the single-store claims are about.
store == stores[1]

HasClassAttr == AttributesContains(store, "class")

\* The current value of the null-namespace class attribute, when present.
ClassValue == AttributesGet(store, "class")[1]

IsNonEmpty(s) == s /= << >>

\* The whitespace-separated non-empty tokens of a value, in order.
Tokens(value) == SelectSeq(StrSplit(value, SELECTOR_WHITESPACE), IsNonEmpty)

CacheIs(tag) == store.class_cache /= None /\ store.class_cache[1].tag = tag

\* C1: the Class Presence Index is present iff a null-namespace class
\* attribute exists, and then it is the index of the attribute's current
\* value: Single for at most one token, else a Bloom filter that holds every
\* non-empty token of the current value.
C1_IndexCoherent ==
    /\ (store.class_cache /= None) <=> HasClassAttr
    /\ (HasClassAttr /\ store.class_cache /= None) =>
           IF Len(Tokens(ClassValue)) <= 1
           THEN CacheIs("Single")
           ELSE /\ CacheIs("Bloom")
                /\ \A t \in Classes(ClassValue) :
                       BloomContains(store.class_cache[1].filter, t)

\* C2: when the current class value has two or more non-empty tokens,
\* has_class(name, CaseSensitive) is true exactly for the names that are one
\* of the tokens.
C2_MultiTokenExact ==
    (HasClassAttr /\ Len(Tokens(ClassValue)) >= 2) =>
        \A name \in Strings :
            HasClass(store, name, "CaseSensitive") <=> name \in Classes(ClassValue)

\* C3: when the current class value holds no whitespace, has_class(name, cs)
\* is the comparison of name with the whole value under cs.
C3_NoWhitespaceExact ==
    (HasClassAttr /\ ~StrContains(ClassValue, SELECTOR_WHITESPACE)) =>
        \A name \in Strings, cs \in CaseSensitivity :
            HasClass(store, name, cs) <=> CaseSensitivityEq(cs, ClassValue, name)

\* C4: after remove("class"), and as long as the store holds no
\* null-namespace class attribute, has_class is false for every name under
\* both policies, whatever the index holds.
C4_RemovedClassNeverMatches ==
    ((lastOp.op = "remove" /\ lastOp.local = "class") \/ ~HasClassAttr) =>
        \A name \in Strings, cs \in CaseSensitivity : ~HasClass(store, name, cs)

\* A class attribute was removed from a store whose index is a Bloom filter
\* (left in place by remove), and the class attribute of the other namespace
\* is still there.
C4_Witness ==
    /\ lastOp.op = "remove"
    /\ lastOp.local = "class"
    /\ CacheIs("Bloom")
    /\ ~HasClassAttr
    /\ Len(store.map) = 1

\* The longest name has_class is asked about.
MaxNameLen == 2

\* The names has_class is asked about: the empty name, names with and
\* without whitespace, names that differ in case only.
Names == UNION {[1..k -> Alphabet] : k \in 0..MaxNameLen}

\* The pieces of a value between whitespace characters, taken from the
\* positions of the value: a stretch without whitespace that is bounded on
\* each side by a whitespace character or by an end of the value.  Empty
\* stretches are pieces too.
Pieces(value) ==
    {SubSeq(value, i, j) : <<i, j>> \in
        {<<i, j>> \in (1..Len(value) + 1) \X (0..Len(value)) :
            /\ j >= i - 1
            /\ \A k \in i..j : value[k] \notin SELECTOR_WHITESPACE
            /\ i = 1 \/ value[i - 1] \in SELECTOR_WHITESPACE
            /\ j = Len(value) \/ value[j + 1] \in SELECTOR_WHITESPACE}}

\* The pieces of the current class value; none when there is no class
\* attribute.
ClassPieces == IF HasClassAttr THEN Pieces(ClassValue) ELSE {}

\* The non-empty tokens of the current class value.
ClassTokens == ClassPieces \ {<< >>}

\* name equals, under cs, one of the given pieces.
Matches(pieces, name, cs) ==
    \E piece \in pieces : CaseSensitivityEq(cs, piece, name)

HasWhitespace(s) == \E i \in 1..Len(s) : s[i] \in SELECTOR_WHITESPACE

\* The index is not the one new would build from the current class value.
IndexIsStale ==
    /\ store.class_cache /= None
    /\ \/ ~HasClassAttr
       \/ \A seed \in Seeds :
              store.class_cache[1] /= ClassCacheNew(ClassValue, seed)

\* C14: when the index is a Bloom filter, has_class(name,
\* AsciiCaseInsensitive) is, for every non-empty name, true exactly when a
\* whitespace-separated token of the current class value equals name under
\* ASCII case folding, whatever the filter holds.
C14_InsensitiveIgnoresFilter ==
    CacheIs("Bloom") =>
        LET tokens == ClassTokens
        IN  \A name \in Names \ {<< >>} :
                HasClass(store, name, "AsciiCaseInsensitive")
                    <=> Matches(tokens, name, "AsciiCaseInsensitive")

\* The index is a Bloom filter whose test of a name is negative, and the
\* case-insensitive query for that name is true.
C14_Witness ==
    /\ CacheIs("Bloom")
    /\ \E name \in Names \ {<< >>} :
           /\ ~BloomContains(store.class_cache[1].filter, name)
           /\ HasClass(store, name, "AsciiCaseInsensitive")

\* C15: when no index is present, has_class(name, cs) is false if there is
\* no null-namespace class attribute, and otherwise true exactly when a
\* whitespace-separated piece of the current class value matches name under
\* cs.
C15_NoIndexExactScan ==
    store.class_cache = None =>
        LET pieces == ClassPieces
        IN  \A name \in Names, cs \in CaseSensitivity :
                HasClass(store, name, cs) <=> Matches(pieces, name, cs)

\* A store built without a class attribute was given one with two tokens by
\* insert, has no index, and answers true for a token of the inserted value.
C15_Witness ==
    /\ lastOp.op = "insert"
    /\ store.class_cache = None
    /\ HasClassAttr
    /\ Len(Tokens(ClassValue)) >= 2
    /\ HasClass(store, Tokens(ClassValue)[2], "CaseSensitive")

\* C18: on a store as new built it, has_class(name, cs) is true exactly
\* when name matches under cs one of the non-empty tokens of the class
\* value, for every non-empty name and both policies.
C18_FreshStoreTokenScan ==
    lastOp.op = "new" =>
        LET tokens == ClassTokens
        IN  \A name \in Names \ {<< >>}, cs \in CaseSensitivity :
                HasClass(store, name, cs) <=> Matches(tokens, name, cs)

\* C19: in every state, for every non-empty name without whitespace, a true
\* answer of has_class(name, cs) means that name matches under cs a token
\* of the current class value.
C19_NoFalsePositive ==
    LET tokens == ClassTokens
    IN  \A name \in Names \ {<< >>}, cs \in CaseSensitivity :
            (~HasWhitespace(name) /\ HasClass(store, name, cs))
                => Matches(tokens, name, cs)

\* The index is stale and a filter: it tests positive for a name that the
\* current class value no longer holds, and has_class is true for another
\* name.
C19_Witness ==
    /\ IndexIsStale
    /\ CacheIs("Bloom")
    /\ \E name \in Names \ {<< >>} :
           /\ BloomContains(store.class_cache[1].filter, name)
           /\ ~Matches(ClassTokens, name, "CaseSensitive")
    /\ \E name \in Names \ {<< >>} : HasClass(store, name, "CaseSensitive")

(***************************************************************************)
(* SpecMap: one store with three keys and a few values, for the claims     *)
(* about the map's entries and their order.                                *)
(***************************************************************************)
\* Longest attribute list handed to Attributes::new.
MaxAttrs == 3

Locals == {"class", "id"}

Prefixes == {None, Some("p")}

MapValues == {<<"a">>, <<"a", " ", "A">>}

IdItem(prefix, value) ==
    [key |-> ExpandedName(NullNs, "id"), value |-> Attribute(prefix, value)]

MapItems ==
    {ClassItem(None, v) : v \in MapValues}
        \cup {IdItem(p, <<"a">>) : p \in Prefixes}
        \cup {SvgClassItem}

MapNewInputs == UNION {[1..k -> MapItems] : k \in 0..MaxAttrs}

AllKeys ==
    {ExpandedName(NullNs, "class"), ExpandedName(NullNs, "id"),
     ExpandedName(SvgNs, "class")}

InitMap ==
    \E items \in MapNewInputs, seed \in Seeds :
        /\ stores = [s \in StoreIds |->
                        IF s = 1 THEN AttributesNew(items, seed) ELSE EmptyStore]
        /\ lastOp = Op("new", 1, "")
        /\ nodes = << >>
        /\ out = NoCall

NextMap ==
    \E l \in Locals, v \in MapValues, p \in Prefixes :
        \/ Insert(1, l, v)
        \/ Remove(1, l)
        \/ GetMutWrite(1, l, v)
        \/ EntryWrite(1, l, Attribute(p, v))

SpecMap == InitMap /\ [][NextMap]_vars

\* The keys of the attributes a start tag of the store's element lists, in
\* the order the serializer emits them.
AttrOrder(attrs) ==
    [i \in 1..Len(StartElemAttrs(attrs)) |->
        ExpandedName(StartElemAttrs(attrs)[i].name.ns,
                     StartElemAttrs(attrs)[i].name.local)]

\* The keys of `before` that are still in `after` are, in the same relative
\* order, the first keys of `after`: the newly inserted ones follow them.
OrderKept(before, after) ==
    LET Survives(k) == \E j \in 1..Len(after) : after[j] = k
        kept == SelectSeq(before, Survives)
    IN  /\ Len(kept) <= Len(after)
        /\ kept = SubSeq(after, 1, Len(kept))

\* C5: every operation keeps the attributes in the order their keys were
\* first inserted: a replaced value keeps its position, a new key goes last,
\* and a removal leaves the relative order of the others as it was.
C5_InsertionOrderKept ==
    [][OrderKept(AttrOrder(stores[1]), AttrOrder(stores'[1]))]_vars

\* C10: insert(local, value) makes the null-namespace entry of local hold the
\* value (without prefix), returns what the entry held before, and leaves
\* every other entry, the order of the other entries and the Class Presence
\* Index as they were, also for "class".
C10_InsertFrame ==
    \A l \in Locals, v \in MapValues :
        LET r == AttributesInsert(store, l, v)
            key == ExpandedName(NullNs, l)
            NotKey(e) == e.key /= key
        IN  /\ IndexMapGet(r.attrs.map, key) = Some(Attribute(None, v))
            /\ r.ret = IndexMapGet(store.map, key)
            /\ SelectSeq(r.attrs.map, NotKey) = SelectSeq(store.map, NotKey)
            /\ r.attrs.class_cache = store.class_cache

\* insert("class", ..) has replaced a single-token value by a value of two
\* tokens in a store of several attributes, and the index is still Single.
C10_Witness ==
    /\ lastOp.op = "insert"
    /\ lastOp.local = "class"
    /\ CacheIs("Single")
    /\ Len(Tokens(ClassValue)) >= 2
    /\ Len(store.map) >= 2

\* The attributes the map holds under the null namespace and the local name
\* l, read off the entries: none or one.
NullNsAttrs(map, l) ==
    {map[i].value : i \in {i \in 1..Len(map) :
                              map[i].key.ns = NullNs /\ map[i].key.local = l}}

\* What an Option of the null-namespace attribute of l is.
NullNsAttr(map, l) ==
    IF NullNsAttrs(map, l) = {}
    THEN None
    ELSE Some(CHOOSE a \in NullNsAttrs(map, l) : TRUE)

\* The entries of the map that are not the null-namespace entry of l.
EntriesBut(map, l) ==
    {map[i] : i \in {i \in 1..Len(map) :
                        map[i].key.ns /= NullNs \/ map[i].key.local /= l}}

HasSvgClass == \E i \in 1..Len(store.map) : store.map[i].key = SvgClassItem.key

\* C16: contains, get, get_mut, entry, insert and remove with a local name
\* l report, return, replace and remove the null-namespace attribute of l
\* only, and leave every other entry in the map: an attribute of the same
\* local name in another namespace is never touched.  A class attribute of
\* another namespace does not make new build an index and does not make
\* has_class true.
C16_NullNamespaceOnly ==
    /\ \A l \in Locals :
           /\ AttributesContains(store, l) <=> NullNsAttrs(store.map, l) /= {}
           /\ AttributesGet(store, l) =
                  IF NullNsAttr(store.map, l) = None
                  THEN None
                  ELSE Some(NullNsAttr(store.map, l)[1].value)
           /\ AttributesRemove(store, l).ret = NullNsAttr(store.map, l)
           /\ NullNsAttrs(AttributesRemove(store, l).attrs.map, l) = {}
           /\ EntriesBut(AttributesRemove(store, l).attrs.map, l)
                  = EntriesBut(store.map, l)
           /\ \A v \in MapValues, p \in Prefixes :
                  /\ AttributesInsert(store, l, v).ret = NullNsAttr(store.map, l)
                  /\ EntriesBut(AttributesInsert(store, l, v).attrs.map, l)
                         = EntriesBut(store.map, l)
                  /\ EntriesBut(AttributesGetMutWrite(store, l, v).map, l)
                         = EntriesBut(store.map, l)
                  /\ EntriesBut(AttributesEntryWrite(store, l, Attribute(p, v)).map, l)
                         = EntriesBut(store.map, l)
    /\ (lastOp.op = "new" /\ ~HasClassAttr) => store.class_cache = None
    /\ (HasSvgClass /\ ~HasClassAttr) =>
           \A name \in Names, cs \in CaseSensitivity : ~HasClass(store, name, cs)

\* remove("class") has taken the null-namespace class attribute out of a
\* store built with one, and the class attribute of the other namespace is
\* still in the map.
C16_Witness ==
    /\ lastOp.op = "remove"
    /\ lastOp.local = "class"
    /\ store.class_cache /= None
    /\ ~HasClassAttr
    /\ HasSvgClass

(***************************************************************************)
(* SpecEq: two stores, built and changed independently, for the claims     *)
(* about equality.                                                         *)
(***************************************************************************)
EqItems ==
    {ClassItem(None, v) : v \in MapValues}
        \cup {IdItem(p, <<"a">>) : p \in Prefixes}

EqNewInputs ==
    {items \in UNION {[1..k -> EqItems] : k \in 0..2} :
        \A i, j \in 1..Len(items) : items[i].key = items[j].key => i = j}

InitEq ==
    \E items1 \in EqNewInputs, items2 \in EqNewInputs, seed \in Seeds :
        /\ stores = [s \in StoreIds |->
                        AttributesNew(IF s = 1 THEN items1 ELSE items2, seed)]
        /\ lastOp = Op("new", 1, "")
        /\ nodes = << >>
        /\ out = NoCall

NextEq ==
    \E s \in StoreIds :
        \/ \E v \in MapValues : Insert(s, "class", v)
        \/ \E l \in Locals : Remove(s, l)
        \/ \E p \in Prefixes : EntryWrite(s, "id", Attribute(p, <<"a">>))

SpecEq == InitEq /\ [][NextEq]_vars

\* The entries of a map, as a set: its content without its order.
Entries(map) == {map[i] : i \in 1..Len(map)}

\* The entries of a map with the prefixes left out.
EntriesNoPrefix(map) ==
    {[key |-> map[i].key, value |-> map[i].value.value] : i \in 1..Len(map)}

\* C8: two attributes under the same Expanded Name are equal iff their values
\* match, whatever their prefixes, and two stores that differ only in
\* prefixes are equal.
C8_PrefixExcluded ==
    /\ \A i \in 1..Len(stores[1].map), j \in 1..Len(stores[2].map) :
           stores[1].map[i].key = stores[2].map[j].key =>
               (AttributeEq(stores[1].map[i].value, stores[2].map[j].value)
                    <=> stores[1].map[i].value.value = stores[2].map[j].value.value)
    /\ EntriesNoPrefix(stores[1].map) = EntriesNoPrefix(stores[2].map) =>
           AttributesEq(stores[1], stores[2])

\* C9: two stores are equal exactly when their maps hold the same entries,
\* whatever their indexes hold.
C9_EqualityIsMapContent ==
    AttributesEq(stores[1], stores[2])
        <=> Entries(stores[1].map) = Entries(stores[2].map)

\* Two non-empty stores with the same entries compare equal although one
\* has a stale index (a class attribute and no index) and the other a fresh
\* one.
C9_Witness ==
    /\ Entries(stores[1].map) = Entries(stores[2].map)
    /\ AttributesContains(stores[1], "class")
    /\ stores[1].class_cache = None
    /\ stores[2].class_cache /= None
    /\ AttributesEq(stores[1], stores[2])

(***************************************************************************)
(* SpecSer: a tree is built node by node, and any node of it is serialized *)
(* in any scope to a sink that never fails.                                *)
(***************************************************************************)
\* Most nodes of a tree, template contents roots included.
MaxNodes == 4

\* "Template" stands for an element that owns template contents.
NodeKinds ==
    {"Element", "Template", "Text", "Comment", "Doctype",
     "ProcessingInstruction", "Document", "DocumentFragment"}

\* The kinds appended as children of a node of kind parentKind: documents
\* and fragments are roots (or template contents), doctypes and processing
\* instructions are children of a document.
ChildKinds(parentKind) ==
    IF parentKind = "Document"
    THEN NodeKinds \ {"Document", "DocumentFragment"}
    ELSE {"Element", "Template", "Text", "Comment"}

Scopes ==
    {IncludeNode, ChildrenOnly(None),
     ChildrenOnly(Some(QualName(None, HtmlNs, "div")))}

\* The attributes of the element with handle id: an id attribute and a
\* prefixed attribute of another namespace.
ElementAttributes(id) ==
    AttributesNew(<<IdItem(None, <<Label(id)>>), SvgClassItem>>, 0)

Node(data) == [data |-> data, children |-> << >>]

\* The node records a new node of the kind brings: the node, and its
\* template contents root when it owns one.
CreateNodes(kind, id) ==
    CASE kind = "Element" ->
             <<Node(ElementData(QualName(None, HtmlNs, Label(id)),
                                ElementAttributes(id), None))>>
      [] kind = "Template" ->
             <<Node(ElementData(QualName(None, HtmlNs, Label(id)),
                                ElementAttributes(id), Some(id + 1))),
               Node(DocumentFragmentData)>>
      [] kind = "Text" -> <<Node(TextData(<<Label(id)>>))>>
      [] kind = "Comment" -> <<Node(CommentData(<<Label(id)>>))>>
      [] kind = "Doctype" ->
             <<Node(DoctypeData(<<Label(id)>>, <<"P">>, <<"S">>))>>
      [] kind = "ProcessingInstruction" ->
             <<Node(ProcessingInstructionData(<<"t">>, <<Label(id)>>))>>
      [] kind = "Document" -> <<Node(DocumentData)>>
      [] kind = "DocumentFragment" -> <<Node(DocumentFragmentData)>>

NodeIds == 1..Len(nodes)

CanHaveChildren(n) == Data(n).kind \in {"Element", "Document", "DocumentFragment"}

\* parent.append(new node of the kind)
AppendChild(parent, kind) ==
    LET id == Len(nodes) + 1
    IN  /\ CanHaveChildren(parent)
        /\ kind \in ChildKinds(Data(parent).kind)
        /\ Len(nodes) + Len(CreateNodes(kind, id)) <= MaxNodes
        /\ nodes' = [nodes EXCEPT ![parent].children = Append(@, id)]
                        \o CreateNodes(kind, id)
        /\ out' = NoCall
        /\ UNCHANGED storeVars

\* node.serialize(sink, scope) on a sink whose call number fail_at fails
SerializeNode(n, scope, fail_at) ==
    /\ out' = [node |-> n, scope |-> scope,
               result |-> Serialize(n, scope, NewSink(fail_at))]
    /\ UNCHANGED <<nodes, storeVars>>

InitSer ==
    \E kind \in NodeKinds :
        /\ nodes = CreateNodes(kind, 1)
        /\ out = NoCall
        /\ stores = [s \in StoreIds |-> EmptyStore]
        /\ lastOp = Op("new", 1, "")

NextSer ==
    \/ \E parent \in NodeIds, kind \in NodeKinds : AppendChild(parent, kind)
    \/ \E n \in NodeIds, scope \in Scopes : SerializeNode(n, scope, 0)

SpecSer == InitSer /\ [][NextSer]_vars

\* The events a serialize call on node n in the scope hands to a sink that
\* never fails.
Events(n, scope) == Serialize(n, scope, NewSink(0)).sink.calls

\* The include-node event sequences of the nodes of a list, concatenated.
RECURSIVE ConcatEvents(_)
ConcatEvents(list) ==
    IF list = << >>
    THEN << >>
    ELSE Events(Head(list), IncludeNode) \o ConcatEvents(Tail(list))

\* A node with everything below it: its children and its template contents,
\* and everything below those.
RECURSIVE Subtree(_)
Subtree(n) ==
    {n} \cup UNION {Subtree(nodes[n].children[i]) : i \in 1..Len(nodes[n].children)}
        \cup (IF Data(n).kind = "Element" /\ Data(n).template_contents /= None
              THEN Subtree(Data(n).template_contents[1])
              ELSE {})

\* Everything below the nodes of a list.
Below(list) == UNION {Subtree(list[i]) : i \in 1..Len(list)}

\* The label of the node an event came from.
EventLabel(e) ==
    CASE e.ev \in {"start_elem", "end_elem"} -> e.name.local
      [] e.ev = "write_text" -> e.text[1]
      [] e.ev = "write_comment" -> e.comment[1]
      [] e.ev = "write_doctype" -> e.doctype[1]
      [] e.ev = "write_processing_instruction" -> e.data[1]

EventLabels(events) == {EventLabel(events[i]) : i \in 1..Len(events)}

OwnsTemplate(n) == Data(n).kind = "Element" /\ Data(n).template_contents /= None

\* The events of a call without the node's own start and end tag.
Inner(events, scope) ==
    IF scope = IncludeNode THEN SubSeq(events, 2, Len(events) - 1) ELSE events

\* C6: a serialize call on an element that owns template contents emits, in
\* either scope, the include-node events of the children of the template
\* contents root in order (between the element's own tags in include-node
\* scope) and no event of a direct child of the element or of anything below
\* one.
C6_TemplateContentsOnly ==
    (out.node /= 0 /\ OwnsTemplate(out.node)) =>
        LET events == out.result.sink.calls
            root == Data(out.node).template_contents[1]
        IN  /\ out.result.ok
            /\ Inner(events, out.scope) = ConcatEvents(Children(root))
            /\ EventLabels(Inner(events, out.scope))
                   \subseteq {Label(d) : d \in Below(Children(root))}
            /\ EventLabels(events)
                   \cap {Label(d) : d \in Below(Children(out.node))} = {}

\* An element with both a direct child and a child of its template contents
\* has been serialized in children-only scope, and events were emitted.
C6_Witness ==
    /\ out.node /= 0
    /\ OwnsTemplate(out.node)
    /\ out.scope /= IncludeNode
    /\ Children(out.node) /= << >>
    /\ Children(Data(out.node).template_contents[1]) /= << >>
    /\ out.result.sink.calls /= << >>

IsDocument(n) == Data(n).kind \in {"Document", "DocumentFragment"}

\* C7: for a Document or DocumentFragment node every scope gives the same
\* result: the include-node events of its children in order, and no start or
\* end tag of the node itself.
C7_DocumentScopeTransparent ==
    /\ \A n \in NodeIds :
           IsDocument(n) =>
               /\ \A scope \in Scopes :
                      Serialize(n, scope, NewSink(0))
                          = Serialize(n, IncludeNode, NewSink(0))
               /\ Events(n, IncludeNode) = ConcatEvents(Children(n))
    /\ (out.node /= 0 /\ IsDocument(out.node)) =>
           /\ out.result.ok
           /\ out.result.sink.calls = ConcatEvents(Children(out.node))
           /\ \A i \in 1..Len(out.result.sink.calls) :
                  EventLabel(out.result.sink.calls[i]) /= Label(out.node)

\* A Document with two child elements has been serialized in children-only
\* scope, and the events of both children were emitted.
C7_Witness ==
    /\ out.node /= 0
    /\ Data(out.node).kind = "Document"
    /\ out.scope /= IncludeNode
    /\ Len(Children(out.node)) = 2
    /\ \A i \in 1..2 : Data(Children(out.node)[i]).kind = "Element"
    /\ Len(out.result.sink.calls) = 4

IsElement(n) == Data(n).kind = "Element"

\* The start and end tags of a sequence of events are properly nested: every
\* end tag closes the element opened last, and none stays open.
RECURSIVE Nested(_, _)
Nested(events, open) ==
    IF events = << >>
    THEN open = << >>
    ELSE IF Head(events).ev = "start_elem"
    THEN Nested(Tail(events), <<Head(events).name>> \o open)
    ELSE IF Head(events).ev = "end_elem"
    THEN /\ open /= << >>
         /\ Head(open) = Head(events).name
         /\ Nested(Tail(events), Tail(open))
    ELSE Nested(Tail(events), open)

\* The children an element renders, read off the tree.
Rendered(n) ==
    IF OwnsTemplate(n)
    THEN nodes[Data(n).template_contents[1]].children
    ELSE nodes[n].children

\* C12: a serialize call on an element in include-node scope to a sink that
\* never fails ends, and its events are one start_elem with the element's
\* name and its attributes in the store's iteration order (namespace, local
\* name and prefix of each), then the include-node events of each rendered
\* child in order, then one end_elem with the same name; the start and end
\* tags of any call are properly nested and matched.
C12_ElementEventSequence ==
    /\ (out.node /= 0 /\ IsElement(out.node) /\ out.scope = IncludeNode) =>
           LET element == Data(out.node)
               map == element.attributes.map
               events == out.result.sink.calls
           IN  /\ out.result.ok
               /\ Len(events) >= 2
               /\ events[1] =
                      [ev |-> "start_elem",
                       name |-> element.name,
                       attrs |-> [i \in 1..Len(map) |->
                                     [name |-> [prefix |-> map[i].value.prefix,
                                                ns |-> map[i].key.ns,
                                                local |-> map[i].key.local],
                                      value |-> map[i].value.value]]]
               /\ events[Len(events)] = [ev |-> "end_elem", name |-> element.name]
               /\ SubSeq(events, 2, Len(events) - 1)
                      = ConcatEvents(Rendered(out.node))
    /\ out.node /= 0 => Nested(out.result.sink.calls, << >>)

\* An element with two children, the first an element with a child of its
\* own, has been serialized in include-node scope.
C12_Witness ==
    /\ out.node /= 0
    /\ IsElement(out.node)
    /\ out.scope = IncludeNode
    /\ Len(Rendered(out.node)) = 2
    /\ IsElement(Rendered(out.node)[1])
    /\ Rendered(Rendered(out.node)[1]) /= << >>
    /\ Len(out.result.sink.calls) >= 6

\* C13: for any element, the events of a children-only call are the events
\* of an include-node call without the first and the last one, the element's
\* own start_elem and end_elem.
C13_ChildrenOnlyIsInner ==
    /\ \A n \in NodeIds :
           IsElement(n) =>
               LET full == Events(n, IncludeNode)
               IN  /\ full[1].ev = "start_elem"
                   /\ full[1].name = Data(n).name
                   /\ full[Len(full)] = [ev |-> "end_elem", name |-> Data(n).name]
                   /\ \A scope \in Scopes \ {IncludeNode} :
                          Events(n, scope) = SubSeq(full, 2, Len(full) - 1)
    /\ (out.node /= 0 /\ IsElement(out.node) /\ out.scope /= IncludeNode) =>
           /\ out.result.ok
           /\ out.result.sink.calls
                  = SubSeq(Events(out.node, IncludeNode), 2,
                           Len(Events(out.node, IncludeNode)) - 1)

\* An element whose rendered child is an element with a child has been
\* serialized in children-only scope: the child's tags were emitted.
C13_Witness ==
    /\ out.node /= 0
    /\ IsElement(out.node)
    /\ out.scope /= IncludeNode
    /\ Rendered(out.node) /= << >>
    /\ IsElement(Rendered(out.node)[1])
    /\ Rendered(Rendered(out.node)[1]) /= << >>
    /\ Len(out.result.sink.calls) >= 3

IsLeaf(n) ==
    Data(n).kind \in {"Text", "Comment", "Doctype", "ProcessingInstruction"}

\* The one event of a leaf node, read off the node's data.
OwnEvent(n) ==
    CASE Data(n).kind = "Doctype" ->
             [ev |-> "write_doctype", doctype |-> nodes[n].data.name]
      [] Data(n).kind = "Text" ->
             [ev |-> "write_text", text |-> nodes[n].data.text]
      [] Data(n).kind = "Comment" ->
             [ev |-> "write_comment", comment |-> nodes[n].data.text]
      [] Data(n).kind = "ProcessingInstruction" ->
             [ev |-> "write_processing_instruction",
              target |-> nodes[n].data.contents[1],
              data |-> nodes[n].data.contents[2]]

\* What the sink of a never-failing call holds after the given events.
Emitted(events) == [sink |-> [calls |-> events, fail_at |-> 0], ok |-> TRUE]

\* C17: a serialize call on a Text, Comment, Doctype or
\* ProcessingInstruction node succeeds without any event in children-only
\* scope, and in include-node scope emits exactly one event of the node's
\* kind: write_doctype with the name only, write_processing_instruction
\* with target and data.
C17_LeafEvents ==
    /\ \A n \in NodeIds, scope \in Scopes :
           IsLeaf(n) =>
               Serialize(n, scope, NewSink(0)) =
                   Emitted(IF scope = IncludeNode THEN <<OwnEvent(n)>> ELSE << >>)
    /\ (out.node /= 0 /\ IsLeaf(out.node)) =>
           out.result =
               Emitted(IF out.scope = IncludeNode
                       THEN <<OwnEvent(out.node)>>
                       ELSE << >>)

\* A processing instruction of a document has been serialized in
\* children-only scope and nothing was emitted, next to a doctype that an
\* include-node call renders by its name.
C17_Witness ==
    /\ out.node /= 0
    /\ Data(out.node).kind = "ProcessingInstruction"
    /\ out.scope /= IncludeNode
    /\ out.result.sink.calls = << >>
    /\ \E n \in NodeIds :
           /\ Data(n).kind = "Doctype"
           /\ Events(n, IncludeNode) = <<[ev |-> "write_doctype",
                                         doctype |-> <<Label(n)>>]>>

(***************************************************************************)
(* SpecFail: a small tree is built node by node, and any node of it is     *)
(* serialized in any scope to a sink one of whose calls fails.             *)
(***************************************************************************)
\* Most nodes of a tree serialized to a failing sink.
MaxFailNodes == 3

\* The number of the sink call that fails: a tree of k nodes emits at most
\* 2 * k events, so every call of a walk can be the failing one, and the
\* last numbers are beyond the end of the shorter walks.
FailAts == 1..(2 * MaxFailNodes)

NextFail ==
    \/ \E parent \in NodeIds, kind \in NodeKinds :
           /\ Len(nodes) + Len(CreateNodes(kind, Len(nodes) + 1)) <= MaxFailNodes
           /\ AppendChild(parent, kind)
    \/ \E n \in NodeIds, scope \in Scopes, fail_at \in FailAts :
           SerializeNode(n, scope, fail_at)

SpecFail == InitSer /\ [][NextFail]_vars

\* C11: when a sink call fails, serialize returns the failure and the
\* failing call is the last call made on the sink: no end_elem of an open
\* element and no event of a later sibling or descendant follows it.  The
\* calls made up to the failure are the first events of the walk to a sink
\* that never fails, and a failure is returned only when a call failed.
C11_FailureStopsWalk ==
    out.node /= 0 =>
        LET calls == out.result.sink.calls
            fail_at == out.result.sink.fail_at
            full == Events(out.node, out.scope)
        IN  /\ fail_at \in 1..Len(calls) =>
                   /\ ~out.result.ok
                   /\ Len(calls) = fail_at
            /\ ~out.result.ok => fail_at \in 1..Len(calls)
            /\ Len(calls) <= Len(full)
            /\ calls = SubSeq(full, 1, Len(calls))
            /\ out.result.ok => calls = full

\* The start_elem of a child element failed as the second call of an
\* include-node call on its parent: two elements are open, the walk to a
\* sink that never fails has three more events, and none of them was made.
C11_Witness ==
    /\ out.node /= 0
    /\ IsElement(out.node)
    /\ out.scope = IncludeNode
    /\ ~out.result.ok
    /\ out.result.sink.fail_at = 2
    /\ Len(out.result.sink.calls) = 2
    /\ out.result.sink.calls[2].ev = "start_elem"
    /\ Len(Events(out.node, IncludeNode)) >= 5

====
